---- MODULE Spec2Model ----
(***************************************************************************)
(* A model of tinysheet: the FieldSheet / HeaderSheet schema builders, the *)
(* validated TableSheet over a TinyDB table, and the TinySheet database.   *)
(*                                                                         *)
(* Python values are written as strings: "True" and "False" are the        *)
(* booleans, "Ann" a str, "7" an int.  The rule engine (cerberus) and the  *)
(* storage engine (tinydb) are modelled only as far as the code calls      *)
(* them.                                                                   *)
(***************************************************************************)
EXTENDS Integers, Sequences, FiniteSets, TLC

VARIABLES
    doc_ids,        \* _interval: the argument of the last call
    interval_ret,   \* _interval: the outcome of the last call
    tables,         \* TinySheet._tables: table name -> table object
    objects,        \* every table object constructed so far, by object id
    sheet_ret,      \* sheet: the last call and what it did
    types_mapping,  \* Validator.types_mapping: type name -> accepted type
    field,          \* a FieldSheet: its name and its rule-set
    field_ret,      \* FieldSheet: the last call and its outcome
    header,         \* a HeaderSheet: its '_schema', fields in insertion order
    header_ret,     \* HeaderSheet: the last call and its outcome
    hdrs,           \* the HeaderSheet objects a table may hold: their '_schema'
    tbl,            \* a TableSheet: its attributes
    registry,       \* cerberus' schema_registry: name -> definition
    docs,           \* the documents the storage holds, by doc_id
    table_ret       \* TableSheet: the last call and its outcome

ivars == <<doc_ids, interval_ret>>
svars == <<tables, objects, sheet_ret>>
fvars == <<field, field_ret>>
hvars == <<header, header_ret>>
tvars == <<hdrs, tbl, registry, docs, table_ret>>
vars == <<ivars, svars, types_mapping, fvars, hvars, tvars>>

(***************************************************************************)
(* Bounds of the model.                                                    *)
(***************************************************************************)
MaxId == 8
MaxLen == 2
MaxSetSize == 2
MaxObjects == 7
MaxArgs == 2
MaxNames == 2
MaxDocs == 2

(***************************************************************************)
(* BareTable._interval (src/tablesheet.py 97-114)                          *)
(***************************************************************************)
Ids == 1..MaxId

\* The elements a caller can put into doc_ids: an int, a set of ints, or
\* a value of any other type.
IntervalElements ==
    {[kind |-> "int", v |-> n, s |-> {}] : n \in Ids}
    \cup {[kind |-> "set", v |-> 0, s |-> S] :
             S \in {T \in SUBSET Ids : Cardinality(T) <= MaxSetSize}}
    \cup {[kind |-> "other", v |-> 0, s |-> {}]}

IntervalInputs ==
    UNION {[1..n -> IntervalElements] : n \in 0..MaxLen}

SetMin(S) == CHOOSE x \in S : \A y \in S : x <= y
SetMax(S) == CHOOSE x \in S : \A y \in S : y <= x

\* while _s <= _e: _doc_id_set.add(_s); _s += 1
RECURSIVE WhileAdd(_, _, _)
WhileAdd(s, e, acc) ==
    IF s <= e THEN WhileAdd(s + 1, e, acc \cup {s}) ELSE acc

\* list(doc_id)[0] and list(doc_id)[1]: the order in which a set is
\* enumerated is not fixed by the language; flip chooses between the two
\* orders of a two-element set.
ListOfSet(S, flip) ==
    IF flip THEN <<SetMax(S), SetMin(S)>> ELSE <<SetMin(S), SetMax(S)>>

\* The loop of _interval from element i on, with the ids collected so far.
RECURSIVE IntervalLoop(_, _, _, _)
IntervalLoop(ids, i, acc, flips) ==
    IF i > Len(ids)
    THEN [status |-> "ok", ids |-> acc]
    ELSE LET doc_id == ids[i] IN
         CASE doc_id.kind = "int" ->
                IntervalLoop(ids, i + 1, acc \cup {doc_id.v}, flips)
           [] doc_id.kind = "set" ->
                IF Cardinality(doc_id.s) # 2
                THEN [status |-> "Exception", ids |-> {}]
                ELSE LET l == ListOfSet(doc_id.s, flips[i]) IN
                     IntervalLoop(ids, i + 1, WhileAdd(l[1], l[2], acc), flips)
           [] OTHER -> [status |-> "TypeError", ids |-> {}]

\* list(_doc_id_set): the result is kept as the set it was built as.
_interval(ids, flips) == IntervalLoop(ids, 1, {}, flips)

IntervalInit ==
    /\ doc_ids = <<>>
    /\ interval_ret = [status |-> "none", ids |-> {}]

\* The state in which a caller holds the list it is about to pass.
IntervalArgs ==
    /\ doc_ids \in IntervalInputs
    /\ interval_ret = [status |-> "none", ids |-> {}]

\* The call table._interval(doc_ids); flips is the order in which each
\* set of the list happens to be enumerated.
Interval ==
    /\ interval_ret.status = "none"
    /\ \E flips \in [1..Len(doc_ids) -> BOOLEAN] :
         interval_ret' = _interval(doc_ids, flips)
    /\ UNCHANGED <<doc_ids, svars, types_mapping, fvars, hvars, tvars>>

(***************************************************************************)
(* TinySheet.sheet (src/tinysheet.py 10-27)                                *)
(***************************************************************************)
StoreNames == {"users", "logs", "_config"}

\* '{}_recycled'.format(name)
RecycledName(name) == name \o "_recycled"

\* self.table_class(self.storage, name, **kwargs): a new table object.  The
\* constructor of a tinydb table writes nothing to the storage.
TableClass(name, kwargs) == [name |-> name, allow_unknown |-> kwargs]

\* The objects sheet(name, **kwargs) constructs, in order, given _tables.
SheetConstructs(tbls, name, kwargs) ==
    (IF RecycledName(name) \notin DOMAIN tbls
     THEN <<TableClass(RecycledName(name), kwargs)>> ELSE <<>>)
    \o (IF "_config" \notin DOMAIN tbls
        THEN <<TableClass("_config", kwargs)>> ELSE <<>>)
    \o (IF name \in DOMAIN tbls
        THEN <<>> ELSE <<TableClass(name, kwargs)>>)

\* _tables after sheet(name): only the table asked for is registered.
SheetRegisters(tbls, name, id) ==
    IF name \in DOMAIN tbls THEN tbls
    ELSE [n \in DOMAIN tbls \cup {name} |->
             IF n = name THEN id ELSE tbls[n]]

StoreInit ==
    /\ tables = <<>>
    /\ objects = <<>>
    /\ sheet_ret = [name |-> "", obj |-> 0, known |-> FALSE, made |-> <<>>]

\* A call db.sheet(name, allow_unknown=kwargs); table() is an alias.
Sheet ==
    \E name \in StoreNames, kwargs \in BOOLEAN :
      LET made == SheetConstructs(tables, name, kwargs)
          objs == objects \o made
          tbls == SheetRegisters(tables, name, Len(objs))
      IN /\ Len(objs) <= MaxObjects
         /\ objects' = objs
         /\ tables' = tbls
         /\ sheet_ret' = [name |-> name, obj |-> tbls[name],
                          known |-> name \in DOMAIN tables,
                          made |-> [i \in 1..Len(made) |-> made[i].name]]
         /\ UNCHANGED <<ivars, types_mapping, fvars, hvars, tvars>>

(***************************************************************************)
(* Python values and dicts.                                                *)
(***************************************************************************)
Bools == {"True", "False"}
Strs == {"string", "___missing_value"}
Classes == {"<class Foo>", "<class Foo#2>"}
Dicts == {"<dict>"}
Values == Bools \cup Strs \cup Classes \cup Dicts

\* hasattr(v, '__name__'): a class has a name, an instance of bool, str or
\* dict has not.
HasName(v) == v \in Classes

\* v.__name__: two distinct classes may carry the same name.
NameOf(v) ==
    IF v \in {"<class Foo>", "<class Foo#2>"} THEN "Foo" ELSE ""

\* v.__class__.__name__
ClassNameOf(v) ==
    CASE v \in Bools -> "bool"
      [] v \in Dicts -> "dict"
      [] v \in Classes -> "type"
      [] v = "<Foo object>" -> "Foo"
      [] OTHER -> "str"

\* isinstance(v, str)
IsStr(v) == ClassNameOf(v) = "str"

\* isinstance(v, cls), for the classes of the model
IsInstance(v, cls) ==
    \/ cls = "<class str>" /\ IsStr(v)
    \/ cls = "<class Foo>" /\ v = "<Foo object>"

EmptyDict == [k \in {} |-> ""]

\* d[k] = v
DictSet(d, k, v) == [x \in DOMAIN d \cup {k} |-> IF x = k THEN v ELSE d[x]]

(***************************************************************************)
(* The rule engine's check of a schema {field: {rule: value}}, as          *)
(* Validator(schema) runs it: the rule must be known and its value of the  *)
(* kind the rule takes; a type must be a registered type name.             *)
(***************************************************************************)
FieldNames == {"a", "b"}
RuleNames == {"required", "type", "default", "schema"}

SchemaAccepts(rule, value, tm) ==
    CASE rule = "required" -> value \in Bools
      [] rule = "type" -> IsStr(value) /\ value \in DOMAIN tm
      [] rule = "default" -> TRUE
      [] rule = "schema" -> value \in Dicts
      [] OTHER -> FALSE

\* cerberus registers these type names itself.
BuiltinTypes == [n \in {"string"} |-> "<class str>"]

(***************************************************************************)
(* FieldSheet (src/fieldsheet.py)                                          *)
(***************************************************************************)
\* The names a caller may call on a FieldSheet: the rules, a property of
\* the class and a name that is no rule.
MethodNames == RuleNames \cup {"name", "foo"}

\* How Python resolves field.<method>: the class's own attributes are found
\* first, and __getattr__ is asked only for the names it does not define.
FieldAttr(method) ==
    CASE method = "type" -> "type"
      [] method \in {"name", "schema"} -> "property"
      [] OTHER -> "__getattr__"

\* FieldSheet.type(type_): the display name of the type.
TypeName(type_) ==
    IF HasName(type_) THEN NameOf(type_) ELSE ClassNameOf(type_)

\* A registry in which the last declaration under a name wins.
TypeRegisterLast(tm, type_) == DictSet(tm, TypeName(type_), type_)

\* FieldSheet.type(type_): the registry after the call.
TypeRegister(tm, type_) ==
    IF TypeName(type_) \notin DOMAIN tm
    THEN DictSet(tm, TypeName(type_), type_)
    ELSE tm

\* FieldSheet.type(type_): the field's rule-set after the call.
TypeRules(rules, type_) == rules

\* value_reciever(value) of __getattr__(method): the outcome and the
\* rule-set after the call.
ValueReciever(rules, method, value, tm) ==
    IF SchemaAccepts(method, value, tm)
    THEN [status |-> "ok", rules |-> DictSet(rules, method, value)]
    ELSE [status |-> "SchemaError", rules |-> rules]

FieldInit ==
    /\ types_mapping = BuiltinTypes
    /\ field = [name |-> "a", rules |-> EmptyDict]
    /\ field_ret = [op |-> "init", method |-> "", value |-> "",
                    pre |-> EmptyDict, accepted |-> FALSE, status |-> "ok"]

\* FieldSheet(name)
FieldNew ==
    \E name \in FieldNames :
      /\ field' = [name |-> name, rules |-> EmptyDict]
      /\ field_ret' = [op |-> "init", method |-> "", value |-> "",
                       pre |-> EmptyDict, accepted |-> FALSE, status |-> "ok"]
      /\ UNCHANGED <<ivars, svars, types_mapping, hvars, tvars>>

\* field.<method>(value)
Call(method, value) ==
    LET ret(status) ==
            [op |-> "call", method |-> method, value |-> value,
             pre |-> field.rules,
             accepted |-> SchemaAccepts(method, value, types_mapping),
             status |-> status]
        vr == ValueReciever(field.rules, method, value, types_mapping)
    IN /\ CASE FieldAttr(method) = "type" ->
                 /\ types_mapping' = TypeRegister(types_mapping, value)
                 /\ field' = [field EXCEPT !.rules = TypeRules(@, value)]
                 /\ field_ret' = ret("ok")
            [] FieldAttr(method) = "property" ->
                 \* the str or dict the property returns is not callable
                 /\ field_ret' = ret("TypeError")
                 /\ UNCHANGED <<field, types_mapping>>
            [] OTHER ->
                 /\ field' = [field EXCEPT !.rules = vr.rules]
                 /\ field_ret' = ret(vr.status)
                 /\ UNCHANGED types_mapping
       /\ UNCHANGED <<ivars, svars, hvars, tvars>>

\* field.<method>(value), for any method name and value.
FieldCall == \E method \in MethodNames, value \in Values : Call(method, value)

\* field.type(type_), for any value.
FieldType == \E type_ \in Values : Call("type", type_)

(***************************************************************************)
(* HeaderSheet (src/headersheet.py)                                        *)
(*                                                                         *)
(* '_schema' is a dict from field name to rule-set; a Python dict keeps    *)
(* its keys in insertion order, so it is a sequence of (name, rules).      *)
(***************************************************************************)
\* list(schema.keys())
Keys(schema) == [i \in 1..Len(schema) |-> schema[i].name]

\* name in schema
HasKey(schema, name) == \E i \in 1..Len(schema) : schema[i].name = name

IndexOf(schema, name) == CHOOSE i \in 1..Len(schema) : schema[i].name = name

\* schema[name]
RulesOf(schema, name) == schema[IndexOf(schema, name)].rules

\* {**schema, name: rules}: a key already there keeps its place.
Merge(schema, name, rules) ==
    IF HasKey(schema, name)
    THEN [schema EXCEPT ![IndexOf(schema, name)].rules = rules]
    ELSE Append(schema, [name |-> name, rules |-> rules])

\* schema.pop(name), for a name that is there
Pop(schema, name) == SelectSeq(schema, LAMBDA e : e.name # name)

\* The arguments of add and remove: a field name, a FieldSheet with the
\* rules it was given, or a value that is neither.
FieldArgs ==
    {[kind |-> "str", name |-> n, rules |-> EmptyDict] : n \in FieldNames}
    \cup {[kind |-> "FieldSheet", name |-> "a",
           rules |-> [required |-> "True"]],
          [kind |-> "FieldSheet", name |-> "b",
           rules |-> [default |-> "___missing_value"]],
          [kind |-> "other", name |-> "", rules |-> EmptyDict]}

FieldArgLists == UNION {[1..n -> FieldArgs] : n \in 1..MaxArgs}

\* The loop of add from argument i on: a str becomes FieldSheet(str), whose
\* rule-set is empty; anything but a str or a FieldSheet is passed over.
RECURSIVE AddLoop(_, _, _)
AddLoop(schema, fields, i) ==
    IF i > Len(fields) THEN schema
    ELSE LET f == fields[i] IN
         IF f.kind \in {"str", "FieldSheet"}
         THEN AddLoop(Merge(schema, f.name, f.rules), fields, i + 1)
         ELSE AddLoop(schema, fields, i + 1)

\* A remove that passes over the names that are not there.
RECURSIVE RemoveLoopLenient(_, _, _)
RemoveLoopLenient(schema, fields, i) ==
    IF i > Len(fields) THEN [status |-> "ok", schema |-> schema]
    ELSE LET f == fields[i] IN
         IF f.kind \in {"str", "FieldSheet"} /\ HasKey(schema, f.name)
         THEN RemoveLoopLenient(Pop(schema, f.name), fields, i + 1)
         ELSE RemoveLoopLenient(schema, fields, i + 1)

\* The loop of remove from argument i on: pop raises KeyError for a name
\* that is not there, and what was popped before stays popped.
RECURSIVE RemoveLoop(_, _, _)
RemoveLoop(schema, fields, i) ==
    IF i > Len(fields) THEN [status |-> "ok", schema |-> schema]
    ELSE LET f == fields[i] IN
         IF f.kind \in {"str", "FieldSheet"}
         THEN IF HasKey(schema, f.name)
              THEN RemoveLoop(Pop(schema, f.name), fields, i + 1)
              ELSE [status |-> "KeyError", schema |-> schema]
         ELSE RemoveLoop(schema, fields, i + 1)

\* The values given to rule and seek, and the rule names.
HeaderValues == {"True", "___missing_value", "<class Foo>"}
HeaderRules == {"required", "default", "type", "foo"}

\* The fields argument of rule: None, a name, or a list of names.
RuleFields ==
    {[kind |-> "None", names |-> <<>>]}
    \cup {[kind |-> "str", names |-> <<n>>] : n \in FieldNames}
    \cup {[kind |-> "list", names |-> l] :
            l \in UNION {[1..n -> FieldNames] : n \in 1..MaxNames}}

\* A rule that gives a listed name that is not in the schema a rule-set of
\* its own.
RECURSIVE RuleLoopCreating(_, _, _, _, _, _)
RuleLoopCreating(schema, tm, rule, value, names, i) ==
    IF i > Len(names) THEN [status |-> "ok", schema |-> schema]
    ELSE IF ~SchemaAccepts(rule, value, tm)
         THEN [status |-> "SchemaError", schema |-> schema]
         ELSE RuleLoopCreating(
                Merge(schema, names[i],
                      IF HasKey(schema, names[i])
                      THEN DictSet(RulesOf(schema, names[i]), rule, value)
                      ELSE DictSet(EmptyDict, rule, value)),
                tm, rule, value, names, i + 1)

\* The loop of rule over a list of names from name i on: a name that is
\* not in the schema is passed over; a rule the engine rejects raises, and
\* what was set before stays set.
RECURSIVE RuleLoop(_, _, _, _, _, _)
RuleLoop(schema, tm, rule, value, names, i) ==
    IF i > Len(names) THEN [status |-> "ok", schema |-> schema]
    ELSE IF HasKey(schema, names[i])
         THEN IF SchemaAccepts(rule, value, tm)
              THEN RuleLoop(
                     Merge(schema, names[i],
                           DictSet(RulesOf(schema, names[i]), rule, value)),
                     tm, rule, value, names, i + 1)
              ELSE [status |-> "SchemaError", schema |-> schema]
         ELSE RuleLoop(schema, tm, rule, value, names, i + 1)

\* rule(rule, value, fields) once the value of a type rule is a name.
RuleApply(schema, tm, rule, value, fields) ==
    CASE fields.kind = "str" ->
           IF ~SchemaAccepts(rule, value, tm)
           THEN [status |-> "SchemaError", schema |-> schema]
           ELSE IF ~HasKey(schema, fields.names[1])
           THEN [status |-> "KeyError", schema |-> schema]
           ELSE [status |-> "ok",
                 schema |-> Merge(schema, fields.names[1],
                              DictSet(RulesOf(schema, fields.names[1]),
                                      rule, value))]
      [] fields.kind = "None" ->
           RuleLoop(schema, tm, rule, value, Keys(schema), 1)
      [] OTHER ->
           RuleLoop(schema, tm, rule, value, fields.names, 1)

\* HeaderSheet.rule: the outcome, the schema and the type registry after
\* the call.  A type rule takes value.__name__, registered if it is new.
HeaderRule(schema, tm, rule, value, fields) ==
    IF rule = "type" /\ ~HasName(value)
    THEN [status |-> "TypeError", schema |-> schema, tm |-> tm]
    ELSE LET tm2 == IF rule = "type" /\ NameOf(value) \notin DOMAIN tm
                    THEN DictSet(tm, NameOf(value), value) ELSE tm
             v2 == IF rule = "type" THEN NameOf(value) ELSE value
             r == RuleApply(schema, tm2, rule, v2, fields)
         IN [status |-> r.status, schema |-> r.schema, tm |-> tm2]

\* The default of seek's value parameter.
MissingValue == "___missing_value"

\* HeaderSheet.seek(rule, value)
Seek(schema, rule, value) ==
    LET match(e) ==
            /\ rule \in DOMAIN e.rules
            /\ (e.rules[rule] = value \/ value = MissingValue)
    IN Keys(SelectSeq(schema, match))

\* The outcome of a call: the operation, how it ended, the list it
\* returned and the names it took out of the schema.
NoCall == [op |-> "init", status |-> "ok", result |-> <<>>, removed |-> {}]

HeaderInit ==
    /\ header = <<>>
    /\ header_ret = NoCall

\* header.add(*fields)
Add(fields) ==
    /\ header' = AddLoop(header, fields, 1)
    /\ header_ret' = [NoCall EXCEPT !.op = "add"]
    /\ UNCHANGED <<ivars, svars, types_mapping, fvars, tvars>>

HeaderAdd == \E fields \in FieldArgLists : Add(fields)

\* header.remove(*fields)
Remove(fields) ==
    LET r == RemoveLoop(header, fields, 1) IN
    /\ header' = r.schema
    /\ header_ret' =
         [NoCall EXCEPT !.op = "remove", !.status = r.status,
            !.removed = {header[i].name : i \in 1..Len(header)}
                        \ {r.schema[i].name : i \in 1..Len(r.schema)}]
    /\ UNCHANGED <<ivars, svars, types_mapping, fvars, tvars>>

HeaderRemove == \E fields \in FieldArgLists : Remove(fields)

\* header.rule(rule, value, fields)
Rule(rule, value, fields) ==
    LET r == HeaderRule(header, types_mapping, rule, value, fields) IN
    /\ header' = r.schema
    /\ types_mapping' = r.tm
    /\ header_ret' = [NoCall EXCEPT !.op = "rule", !.status = r.status]
    /\ UNCHANGED <<ivars, svars, fvars, tvars>>

\* The rules and values rule is called with: rules the engine accepts, a
\* value it rejects, a type, a value that is no type, an unknown rule.
RuleCalls ==
    {<<"required", "True">>, <<"required", "___missing_value">>,
     <<"default", "___missing_value">>, <<"type", "<class Foo>">>,
     <<"type", "True">>, <<"foo", "True">>}

HeaderRuleCall ==
    \E c \in RuleCalls, fields \in RuleFields : Rule(c[1], c[2], fields)

\* header.rule('type', value, fields), for a class or a value that is no
\* type.
HeaderRuleType ==
    \E value \in Classes \cup {"True"}, fields \in RuleFields :
      Rule("type", value, fields)

\* header.seek(rule) when no value is given, header.seek(rule, value) when
\* one is: an omitted value is the parameter's default.
SeekCall(rule, given, value) ==
    /\ header_ret' =
         [NoCall EXCEPT !.op = "seek",
            !.result = Seek(header, rule,
                            IF given THEN value ELSE MissingValue)]
    /\ UNCHANGED <<ivars, svars, types_mapping, fvars, header, tvars>>

HeaderSeek ==
    \E rule \in HeaderRules, value \in HeaderValues :
      SeekCall(rule, TRUE, value) \/ SeekCall(rule, FALSE, value)

\* header.all_fields()
HeaderAllFields ==
    /\ header_ret' = [NoCall EXCEPT !.op = "all_fields",
                                    !.result = Keys(header)]
    /\ UNCHANGED <<ivars, svars, types_mapping, fvars, header, tvars>>

\* del header.schema
HeaderDelSchema ==
    /\ header' = <<>>
    /\ header_ret' = [NoCall EXCEPT !.op = "del"]
    /\ UNCHANGED <<ivars, svars, types_mapping, fvars, tvars>>

(***************************************************************************)
(* ValidatedTable and TableSheet (src/tablesheet.py)                       *)
(***************************************************************************)
\* The HeaderSheet objects of the model; the table is constructed with h1.
Headers == {"h1", "h2"}

\* Validator(schema=...): the rule engine checks the schema it is given.
SchemaValid(schema, tm) ==
    \A i \in 1..Len(schema) :
        \A r \in DOMAIN schema[i].rules :
            SchemaAccepts(r, schema[i].rules[r], tm)

\* The fields of a document the rule engine reports: an unknown field when
\* unknown fields are not allowed, a value not of the field's type, a
\* required field that is missing.
DocErrors(schema, allow_unknown, tm, doc) ==
    {f \in DOMAIN doc : ~HasKey(schema, f) /\ ~allow_unknown}
    \cup {f \in DOMAIN doc :
             /\ HasKey(schema, f)
             /\ "type" \in DOMAIN RulesOf(schema, f)
             /\ ~IsInstance(doc[f], tm[RulesOf(schema, f)["type"]])}
    \cup {f \in {schema[i].name : i \in 1..Len(schema)} :
             /\ "required" \in DOMAIN RulesOf(schema, f)
             /\ RulesOf(schema, f)["required"] = "True"
             /\ f \notin DOMAIN doc}

(***************************************************************************)
(* The attribute _schema of the table: the dict that was the header's      *)
(* '_schema' when the table was constructed.  While the header still holds *)
(* that dict (schema_alias) the two are one object; once the header has    *)
(* bound a new dict, _schema keeps the old one (schema_val), whose         *)
(* rule-sets are still shared with the header's until the header replaces  *)
(* or drops them.                                                          *)
(***************************************************************************)
ArgNames(fields) ==
    {fields[i].name :
        i \in {j \in 1..Len(fields) : fields[j].kind \in {"str", "FieldSheet"}}}

Detach(schema, shared) ==
    [i \in 1..Len(schema) |->
        [name |-> schema[i].name, rules |-> schema[i].rules,
         shared |-> schema[i].name \in shared]]

\* self['_schema'] = {**self['_schema'], **field.schema} binds a new dict;
\* the fields given get the new FieldSheet's rule-set.
SchemaAttrAdd(t, h, old, fields) ==
    IF h # "h1" \/ ArgNames(fields) = {} THEN t
    ELSE IF t.schema_alias
    THEN [t EXCEPT !.schema_alias = FALSE,
            !.schema_val = Detach(old, {old[i].name : i \in 1..Len(old)} \ ArgNames(fields))]
    ELSE [t EXCEPT !.schema_val =
            [i \in 1..Len(t.schema_val) |->
                [t.schema_val[i] EXCEPT !.shared =
                    @ /\ t.schema_val[i].name \notin ArgNames(fields)]]]

\* pop() works on the dict the header holds.
SchemaAttrRemove(t, h, new) ==
    IF h # "h1" \/ t.schema_alias THEN t
    ELSE [t EXCEPT !.schema_val =
            [i \in 1..Len(t.schema_val) |->
                [t.schema_val[i] EXCEPT !.shared =
                    @ /\ HasKey(new, t.schema_val[i].name)]]]

\* self['_schema'][field][rule] = value works on the rule-set itself.
SchemaAttrRule(t, h, new) ==
    IF h # "h1" \/ t.schema_alias THEN t
    ELSE [t EXCEPT !.schema_val =
            [i \in 1..Len(t.schema_val) |->
                [t.schema_val[i] EXCEPT !.rules =
                    IF t.schema_val[i].shared
                    THEN RulesOf(new, t.schema_val[i].name) ELSE @]]]

\* self['_schema'] = {} binds a new dict.
SchemaAttrDel(t, h, old) ==
    IF h # "h1" THEN t
    ELSE IF t.schema_alias
    THEN [t EXCEPT !.schema_alias = FALSE, !.schema_val = Detach(old, {})]
    ELSE [t EXCEPT !.schema_val = Detach(t.schema_val, {})]

\* self._schema, as a schema.
SchemaAttr(t, hs) ==
    IF t.schema_alias THEN hs["h1"]
    ELSE [i \in 1..Len(t.schema_val) |->
            [name |-> t.schema_val[i].name, rules |-> t.schema_val[i].rules]]

\* A table whose validators are given self._schema, the dict kept at
\* construction, in place of the header's.
TableSchemaStale(t, hs) == SchemaAttr(t, hs)

\* TableSheet.schema: the '_schema' of the header the table holds.
TableSchema(t, hs) == hs[t.header]

\* _set_validator_rules(): the schema is read through the schema property.
SetValidatorRules(t, hs) ==
    [schema |-> TableSchema(t, hs), allow_unknown |-> t.allow_unknown]

\* self.validator.validate(document): the rule engine raises SchemaError for
\* a schema it rejects and DocumentError for a document that is no mapping.
ValidatorValidate(t, hs, tm, document) ==
    LET rules == SetValidatorRules(t, hs) IN
    IF ~SchemaValid(rules.schema, tm) THEN "SchemaError"
    ELSE IF document.kind # "dict" THEN "DocumentError"
    ELSE IF DocErrors(rules.schema, rules.allow_unknown, tm,
                      document.map) = {}
    THEN "True" ELSE "False"

\* ValidatedTable.validated(document): the rules of the model normalize a
\* document to itself.
Validated(t, hs, tm, document) ==
    LET v == ValidatorValidate(t, hs, tm, document) IN
    CASE v = "True" -> [status |-> "ok", doc |-> document.map]
      [] v = "False" -> [status |-> "Exception", doc |-> EmptyDict]
      [] OTHER -> [status |-> v, doc |-> EmptyDict]

\* ValidatedTable.validate_errors(document): validate() returns a bool, and
\* a bool has no attribute errors.
ValidateErrors(t, hs, tm, document) ==
    LET v == ValidatorValidate(t, hs, tm, document) IN
    IF v \in {"True", "False"} THEN "AttributeError" ELSE v

\* The documents given to the table: mappings, and an update function that
\* sets the fields of its map.
DocInputs ==
    {[kind |-> "dict", map |-> m] :
        m \in {EmptyDict, [a |-> "Ann"], [a |-> "<Foo object>"],
               [b |-> "Ann"]}}
    \cup {[kind |-> "callable", map |-> [a |-> "Ann"]]}

DocLists == UNION {[1..n -> DocInputs] : n \in 0..MaxArgs}

\* The conditions of update: none (every document) and where('a').exists().
Conds == {"None", "has_a"}
Matches(doc, cond) == cond = "None" \/ "a" \in DOMAIN doc

UpdateInputs ==
    {d \in DocInputs : d.map \in {EmptyDict, [a |-> "Ann"]}}

UpdateLists ==
    UNION {[1..n -> [fields : UpdateInputs, cond : {"has_a"}]] :
              n \in 0..MaxArgs}

\* doc.update(fields)
DictUpdate(doc, fields) ==
    [k \in DOMAIN doc \cup DOMAIN fields |->
        IF k \in DOMAIN fields THEN fields[k] ELSE doc[k]]

\* The storage engine's update(fields, cond) on the stored documents.
StorageUpdate(store, fields, cond) ==
    [i \in 1..Len(store) |->
        IF Matches(store[i], cond) THEN DictUpdate(store[i], fields)
        ELSE store[i]]

\* BareTable.insert(document)
InsertResult(store, t, hs, tm, document) ==
    LET r == Validated(t, hs, tm, document) IN
    IF r.status = "ok"
    THEN [status |-> "ok", store |-> Append(store, r.doc), at |-> 0]
    ELSE [status |-> r.status, store |-> store, at |-> 1]

\* [self.validated(document) for document in documents] from document i
\* on: the first document that fails ends the comprehension.
RECURSIVE ValidatedList(_, _, _, _, _, _)
ValidatedList(t, hs, tm, documents, i, acc) ==
    IF i > Len(documents) THEN [status |-> "ok", docs |-> acc, at |-> 0]
    ELSE LET r == Validated(t, hs, tm, documents[i]) IN
         IF r.status = "ok"
         THEN ValidatedList(t, hs, tm, documents, i + 1, Append(acc, r.doc))
         ELSE [status |-> r.status, docs |-> <<>>, at |-> i]

\* Insertion of the documents one at a time, each as soon as it validates.
RECURSIVE InsertOneByOne(_, _, _, _, _)
InsertOneByOne(store, t, hs, tm, documents) ==
    IF documents = <<>> THEN [status |-> "ok", store |-> store, at |-> 0]
    ELSE LET r == InsertResult(store, t, hs, tm, Head(documents)) IN
         IF r.status = "ok"
         THEN InsertOneByOne(r.store, t, hs, tm, Tail(documents))
         ELSE r

\* BareTable.insert_multiple(documents): every document is validated
\* before the storage engine is given any.
InsertMultipleResult(store, t, hs, tm, documents) ==
    LET v == ValidatedList(t, hs, tm, documents, 1, <<>>) IN
    IF v.status = "ok"
    THEN [status |-> "ok", store |-> store \o v.docs, at |-> 0]
    ELSE [status |-> v.status, store |-> store, at |-> v.at]

\* BareTable.update(fields, cond): fields goes through validated() whatever
\* it is.
UpdateResult(store, t, hs, tm, fields, cond) ==
    LET r == Validated(t, hs, tm, fields) IN
    IF r.status = "ok"
    THEN [status |-> "ok", store |-> StorageUpdate(store, r.doc, cond)]
    ELSE [status |-> r.status, store |-> store]

\* The storage engine's update_multiple: the updates in order.
RECURSIVE StorageUpdateMultiple(_, _, _)
StorageUpdateMultiple(store, updates, i) ==
    IF i > Len(updates) THEN store
    ELSE StorageUpdateMultiple(
           StorageUpdate(store, updates[i].fields, updates[i].cond),
           updates, i + 1)

\* The loop of update_multiple: the first element of every update goes
\* through validated().
RECURSIVE ValidatedUpdates(_, _, _, _, _, _)
ValidatedUpdates(t, hs, tm, updates, i, acc) ==
    IF i > Len(updates) THEN [status |-> "ok", updates |-> acc]
    ELSE LET r == Validated(t, hs, tm, updates[i].fields) IN
         IF r.status = "ok"
         THEN ValidatedUpdates(t, hs, tm, updates, i + 1,
                Append(acc, [fields |-> r.doc, cond |-> updates[i].cond]))
         ELSE [status |-> r.status, updates |-> <<>>]

\* BareTable.update_multiple(updates)
UpdateMultipleResult(store, t, hs, tm, updates) ==
    LET v == ValidatedUpdates(t, hs, tm, updates, 1, <<>>) IN
    IF v.status = "ok"
    THEN [status |-> "ok",
          store |-> StorageUpdateMultiple(store, v.updates, 1)]
    ELSE [status |-> v.status, store |-> store]

\* The header setter's self._header = other.
HeaderSet(t, other) == [t EXCEPT !.header = other]

\* A setter that keeps in the registry the fields of the new header only.
RegisterLoopPruning(reg, schema, i) ==
    [n \in {schema[j].name : j \in 1..Len(schema)} |->
        <<schema[CHOOSE j \in 1..Len(schema) : schema[j].name = n]>>]

\* The header setter's loop over the fields of the new header:
\* self._schema_registry.add(field, {field: other['_schema'][field]}).
RECURSIVE RegisterLoop(_, _, _)
RegisterLoop(reg, schema, i) ==
    IF i > Len(schema) THEN reg
    ELSE RegisterLoop(DictSet(reg, schema[i].name, <<schema[i]>>),
                      schema, i + 1)

\* The header operations a table's user calls in the model.
StrArg(n) == [kind |-> "str", name |-> n, rules |-> EmptyDict]

SheetAddArgs ==
    {<<StrArg("a")>>,
     <<[kind |-> "FieldSheet", name |-> "a", rules |-> [required |-> "True"]]>>}

SheetRemoveArgs == {<<StrArg("a")>>}

SheetRuleArgs ==
    {[rule |-> "required", value |-> "True",
      fields |-> [kind |-> "None", names |-> <<>>]],
     [rule |-> "type", value |-> "<class Foo>",
      fields |-> [kind |-> "str", names |-> <<"a">>]]}

NoTableCall == [op |-> "init", status |-> "ok", used |-> <<>>, at |-> 0]

\* TableSheet(storage, name, header=h1)
TableInit ==
    /\ hdrs = [h \in Headers |-> <<>>]
    /\ tbl = [header |-> "h1", allow_unknown |-> TRUE,
              schema_alias |-> TRUE, schema_val |-> <<>>]
    /\ registry = EmptyDict
    /\ docs = <<>>
    /\ table_ret = NoTableCall

others == <<ivars, svars, fvars, hvars>>

\* table.insert(document)
Insert(document) ==
    LET r == InsertResult(docs, tbl, hdrs, types_mapping, document) IN
    /\ Len(r.store) <= MaxDocs
    /\ docs' = r.store
    /\ table_ret' = [NoTableCall EXCEPT !.op = "insert",
                       !.status = r.status, !.at = r.at,
                       !.used = SetValidatorRules(tbl, hdrs).schema]
    /\ UNCHANGED <<others, types_mapping, hdrs, tbl, registry>>

TableInsert == \E document \in DocInputs : Insert(document)

\* table.insert_multiple(documents)
InsertMultiple(documents) ==
    LET r == InsertMultipleResult(docs, tbl, hdrs, types_mapping, documents)
    IN
    /\ Len(docs) + Len(documents) <= MaxDocs
    /\ docs' = r.store
    /\ table_ret' = [NoTableCall EXCEPT !.op = "insert_multiple",
                       !.status = r.status, !.at = r.at,
                       !.used = SetValidatorRules(tbl, hdrs).schema]
    /\ UNCHANGED <<others, types_mapping, hdrs, tbl, registry>>

TableInsertMultiple == \E documents \in DocLists : InsertMultiple(documents)

\* table.update(fields, cond)
Update(fields, cond) ==
    LET r == UpdateResult(docs, tbl, hdrs, types_mapping, fields, cond) IN
    /\ docs' = r.store
    /\ table_ret' = [NoTableCall EXCEPT !.op = "update",
                       !.status = r.status,
                       !.used = SetValidatorRules(tbl, hdrs).schema]
    /\ UNCHANGED <<others, types_mapping, hdrs, tbl, registry>>

TableUpdate == \E fields \in DocInputs, cond \in Conds : Update(fields, cond)

\* table.update_multiple(updates)
UpdateMultiple(updates) ==
    LET r == UpdateMultipleResult(docs, tbl, hdrs, types_mapping, updates) IN
    /\ docs' = r.store
    /\ table_ret' = [NoTableCall EXCEPT !.op = "update_multiple",
                       !.status = r.status,
                       !.used = IF updates = <<>> THEN <<>>
                                ELSE SetValidatorRules(tbl, hdrs).schema]
    /\ UNCHANGED <<others, types_mapping, hdrs, tbl, registry>>

TableUpdateMultiple == \E updates \in UpdateLists : UpdateMultiple(updates)

\* table.validate(document)
TableValidate ==
    \E document \in DocInputs :
      LET r == Validated(tbl, hdrs, types_mapping, document) IN
      /\ table_ret' = [NoTableCall EXCEPT !.op = "validate",
                         !.status = r.status,
                         !.used = SetValidatorRules(tbl, hdrs).schema]
      /\ UNCHANGED <<others, types_mapping, hdrs, tbl, registry, docs>>

\* table.validate_errors(document)
TableValidateErrors ==
    \E document \in DocInputs :
      /\ table_ret' = [NoTableCall EXCEPT !.op = "validate_errors",
                         !.status = ValidateErrors(tbl, hdrs, types_mapping,
                                                   document),
                         !.used = SetValidatorRules(tbl, hdrs).schema]
      /\ UNCHANGED <<others, types_mapping, hdrs, tbl, registry, docs>>

\* table.model(): the document model is given _set_validator_rules().
TableModel ==
    /\ table_ret' = [NoTableCall EXCEPT !.op = "model",
                       !.used = SetValidatorRules(tbl, hdrs).schema]
    /\ UNCHANGED <<others, types_mapping, hdrs, tbl, registry, docs>>

\* table.allow_unknown = value
AllowUnknownSetter ==
    \E value \in {"True", "False", "Ann"} :
      /\ IF value \in Bools
         THEN /\ tbl' = [tbl EXCEPT !.allow_unknown = (value = "True")]
              /\ table_ret' = [NoTableCall EXCEPT !.op = "allow_unknown"]
         ELSE /\ tbl' = tbl
              /\ table_ret' = [NoTableCall EXCEPT !.op = "allow_unknown",
                                 !.status = "TypeError"]
      /\ UNCHANGED <<others, types_mapping, hdrs, registry, docs>>

\* table.header = other, for a HeaderSheet or a value that is none.
HeaderSetter(other) ==
    /\ IF other \in Headers
       THEN /\ tbl' = HeaderSet(tbl, other)
            /\ registry' = RegisterLoop(registry, hdrs[other], 1)
            /\ table_ret' = [NoTableCall EXCEPT !.op = "header"]
       ELSE /\ table_ret' = [NoTableCall EXCEPT !.op = "header",
                               !.status = "TypeError"]
            /\ UNCHANGED <<tbl, registry>>
    /\ UNCHANGED <<others, types_mapping, hdrs, docs>>

TableHeaderSetter == \E other \in Headers \cup {"<dict>"} : HeaderSetter(other)

\* h.add(*fields), for a header the table may hold
SheetAddFields(h, fields) ==
    /\ hdrs' = [hdrs EXCEPT ![h] = AddLoop(@, fields, 1)]
    /\ tbl' = SchemaAttrAdd(tbl, h, hdrs[h], fields)
    /\ table_ret' = [NoTableCall EXCEPT !.op = "add"]
    /\ UNCHANGED <<others, types_mapping, registry, docs>>

SheetAdd(h) == \E fields \in SheetAddArgs : SheetAddFields(h, fields)

\* h.add(*fields) with a second field name
SheetAddAny(h) ==
    \E fields \in SheetAddArgs \cup {<<StrArg("b")>>} :
      SheetAddFields(h, fields)

\* h.remove(*fields)
SheetRemove(h) ==
    \E fields \in SheetRemoveArgs :
      LET r == RemoveLoop(hdrs[h], fields, 1) IN
      /\ hdrs' = [hdrs EXCEPT ![h] = r.schema]
      /\ tbl' = SchemaAttrRemove(tbl, h, r.schema)
      /\ table_ret' = [NoTableCall EXCEPT !.op = "remove",
                         !.status = r.status]
      /\ UNCHANGED <<others, types_mapping, registry, docs>>

\* h.rule(rule, value, fields)
SheetRule(h) ==
    \E a \in SheetRuleArgs :
      LET r == HeaderRule(hdrs[h], types_mapping, a.rule, a.value, a.fields)
      IN
      /\ hdrs' = [hdrs EXCEPT ![h] = r.schema]
      /\ types_mapping' = r.tm
      /\ tbl' = SchemaAttrRule(tbl, h, r.schema)
      /\ table_ret' = [NoTableCall EXCEPT !.op = "rule", !.status = r.status]
      /\ UNCHANGED <<others, registry, docs>>

\* del h.schema
SheetDel(h) ==
    /\ hdrs' = [hdrs EXCEPT ![h] = <<>>]
    /\ tbl' = SchemaAttrDel(tbl, h, hdrs[h])
    /\ table_ret' = [NoTableCall EXCEPT !.op = "del"]
    /\ UNCHANGED <<others, types_mapping, registry, docs>>

Init ==
    IntervalInit /\ StoreInit /\ FieldInit /\ HeaderInit /\ TableInit

InitInterval ==
    IntervalArgs /\ StoreInit /\ FieldInit /\ HeaderInit /\ TableInit

SpecInterval == InitInterval /\ [][Interval]_vars
SpecStore == Init /\ [][Sheet]_vars
SpecField == Init /\ [][FieldNew \/ FieldCall]_vars

HeaderNext ==
    \/ HeaderAdd
    \/ HeaderRemove
    \/ HeaderRuleCall
    \/ HeaderSeek
    \/ HeaderAllFields
    \/ HeaderDelSchema

SpecHeader == Init /\ [][HeaderNext]_vars

\* A group that is built with add and whose rules are set with rule.
RuleNext ==
    \/ HeaderAdd
    \/ HeaderRuleCall

SpecRule == Init /\ [][RuleNext]_vars

\* The type registry under the two operations that write it, on a field
\* and on a group.
TypesNext ==
    \/ FieldType
    \/ HeaderAdd
    \/ HeaderRuleType

SpecTypes == Init /\ [][TypesNext]_vars

\* The table and its documents; the header is the one it was given.
TableNext ==
    \/ TableInsert
    \/ TableInsertMultiple
    \/ TableUpdate
    \/ TableUpdateMultiple
    \/ TableValidate
    \/ TableValidateErrors
    \/ AllowUnknownSetter
    \/ SheetAdd(tbl.header)
    \/ SheetRemove(tbl.header)
    \/ SheetRule(tbl.header)
    \/ SheetDel(tbl.header)

SpecTable == Init /\ [][TableNext]_vars

\* The table and the headers it may be given.
SheetNext ==
    \/ TableHeaderSetter
    \/ TableValidate
    \/ TableModel
    \/ \E h \in Headers : SheetAdd(h)
    \/ \E h \in Headers : SheetRemove(h)
    \/ \E h \in Headers : SheetRule(h)
    \/ \E h \in Headers : SheetDel(h)

SpecSheet == Init /\ [][SheetNext]_vars

\* The table whose header is replaced, with headers of up to two fields.
SetterNext ==
    \/ TableHeaderSetter
    \/ \E h \in Headers : SheetAddAny(h)
    \/ \E h \in Headers : SheetRemove(h)
    \/ \E h \in Headers : SheetRule(h)

SpecSetter == Init /\ [][SetterNext]_vars

----------------------------------------------------------------------------
(***************************************************************************)
(* Properties of _interval.                                                *)
(***************************************************************************)
HasOther(ids) == \E i \in 1..Len(ids) : ids[i].kind = "other"
HasBadSet(ids) ==
    \E i \in 1..Len(ids) : ids[i].kind = "set" /\ Cardinality(ids[i].s) # 2

\* What the expansion is to be: every int itself, every two-element set
\* the inclusive range from its smaller to its larger element.
ExpectedIds(ids) ==
    UNION {IF ids[i].kind = "int" THEN {ids[i].v}
           ELSE SetMin(ids[i].s)..SetMax(ids[i].s) : i \in 1..Len(ids)}

\* C7: a two-element identifier set expands to the inclusive range from
\* its smaller to its larger element, whatever the order its elements are
\* enumerated in; a set of another size fails; plain integers are included
\* as themselves.
C7_IntervalExpansion ==
    (interval_ret.status # "none" /\ ~HasOther(doc_ids)) =>
        IF HasBadSet(doc_ids)
        THEN interval_ret.status = "Exception"
        ELSE /\ interval_ret.status = "ok"
             /\ interval_ret.ids = ExpectedIds(doc_ids)

(***************************************************************************)
(* Properties of TinySheet.sheet.                                          *)
(***************************************************************************)
ObjectsNamed(n) == {i \in 1..Len(objects) : objects[i].name = n}

\* C2: every sheet(name) call returns the one table registered under the
\* name, and the companion tables name_recycled and _config are each
\* constructed once, by the first call only: a later call constructs no
\* table object.
C2_SheetIdempotent ==
    /\ \A n \in DOMAIN tables :
          sheet_ret.name = n => sheet_ret.obj = tables[n]
    /\ sheet_ret.known => sheet_ret.made = <<>>
    /\ \A n \in DOMAIN tables :
          /\ Cardinality(ObjectsNamed(RecycledName(n))) <= 1
          /\ Cardinality(ObjectsNamed("_config")) <= 1

(***************************************************************************)
(* Properties of FieldSheet.                                               *)
(***************************************************************************)
\* C4: after field.type(t) the field's rule-set holds type, mapped to the
\* display name of t, and the name is registered.
C4_TypeSetsRule ==
    (field_ret.op = "call" /\ field_ret.method = "type"
        /\ field_ret.status = "ok") =>
        /\ "type" \in DOMAIN field.rules
        /\ field.rules["type"] = TypeName(field_ret.value)
        /\ TypeName(field_ret.value) \in DOMAIN types_mapping

\* C8: a rule is written into the rule-set only if the rule engine accepts
\* it and a failed call leaves the rule-set as it was; and on a new field,
\* for every rule name, a call the engine accepts makes the schema exactly
\* {field: {name: value}}.
C8_SchemaFirstCommit ==
    field_ret.op = "call" =>
        /\ field.rules # field_ret.pre => field_ret.accepted
        /\ field_ret.status # "ok" => field.rules = field_ret.pre
        /\ (field_ret.pre = EmptyDict /\ field_ret.accepted) =>
              field.rules = DictSet(EmptyDict, field_ret.method,
                                    field_ret.value)

(***************************************************************************)
(* Properties of HeaderSheet.                                              *)
(***************************************************************************)
\* The fields of the schema whose rule-set holds the rule, with the value
\* when one is given, in the schema's order.
FieldsWhere(schema, rule, given, value) ==
    LET match(e) ==
            /\ rule \in DOMAIN e.rules
            /\ given => e.rules[rule] = value
    IN Keys(SelectSeq(schema, match))

\* C6: seek(rule, value) returns exactly the fields whose rule-set holds
\* the rule with a value equal to the one given, whatever value is given,
\* and seek(rule) exactly the fields whose rule-set holds the rule, in
\* insertion order.
C6_SeekExact ==
    [][header_ret'.op = "seek" =>
         \A rule \in HeaderRules, given \in BOOLEAN, value \in HeaderValues :
           SeekCall(rule, given, value) =>
             header_ret'.result = FieldsWhere(header, rule, given, value)]_vars

\* The names remove was given, in order.
RemovedNames(fields) ==
    Keys(SelectSeq(fields, LAMBDA f : f.kind \in {"str", "FieldSheet"}))

\* A name that is absent when its turn comes: not in the group, or
\* removed earlier in the same call.
SomeNameAbsent(schema, names) ==
    \E i \in 1..Len(names) :
        \/ ~HasKey(schema, names[i])
        \/ \E j \in 1..(i - 1) : names[j] = names[i]

\* What remove(names) is to leave of a schema.
Without(schema, names) ==
    SelectSeq(schema,
              LAMBDA e : \A i \in 1..Len(names) : e.name # names[i])

\* C10: remove fails with KeyError if a given name is absent from the
\* group; when it returns, no removed name is left in all_fields() and
\* every other field is still there, in place, with its rule-set.
C10_Remove ==
    [][header_ret'.op = "remove" =>
         \A fields \in FieldArgLists :
           Remove(fields) =>
             LET names == RemovedNames(fields) IN
             /\ SomeNameAbsent(header, names) =>
                   header_ret'.status = "KeyError"
             /\ header_ret'.status = "ok" =>
                   /\ \A i \in 1..Len(names) : ~HasKey(header', names[i])
                   /\ header' = Without(header, names)]_vars

\* C10's case: remove has returned after taking a field out of a group
\* that holds another field, with rules of its own.
C10_Witness ==
    /\ header_ret.op = "remove"
    /\ header_ret.status = "ok"
    /\ header_ret.removed # {}
    /\ Len(header) = 1
    /\ header[1].rules # EmptyDict

\* The names rule(rule, value, fields) is to set the rule on: every field
\* of the group when fields is None, the name when it is a name, the
\* listed names the group holds when it is a list.
RuleTargets(schema, fields) ==
    CASE fields.kind = "None" -> {schema[i].name : i \in 1..Len(schema)}
      [] fields.kind = "str" -> {fields.names[1]}
      [] OTHER -> {fields.names[i] : i \in 1..Len(fields.names)}
                  \cap {schema[i].name : i \in 1..Len(schema)}

\* The value rule writes: the name of the type for a type rule, the value
\* itself for any other rule.
RuleWritten(rule, value) == IF rule = "type" THEN NameOf(value) ELSE value

\* C11: rule(rule, value, fields) leaves the field names of the group as
\* they were; when it returns, the rule is set on every field of the group
\* (fields None), on the named field only (a name), or on the listed names
\* the group holds (a list), and every other rule-set is what it was; a
\* listed name that is absent is no failure and creates no field; a call
\* that fails changes nothing.
C11_RuleFrame ==
    [][header_ret'.op = "rule" =>
         \A c \in RuleCalls, fields \in RuleFields :
           Rule(c[1], c[2], fields) =>
             LET targets == RuleTargets(header, fields) IN
             /\ Keys(header') = Keys(header)
             /\ fields.kind = "list" => header_ret'.status # "KeyError"
             /\ (fields.kind = "list" /\ targets = {}
                   /\ (c[1] = "type" => HasName(c[2]))) =>
                   header_ret'.status = "ok"
             /\ header_ret'.status # "ok" => header' = header
             /\ header_ret'.status = "ok" =>
                   \A i \in 1..Len(header) :
                     header'[i].rules =
                       IF header[i].name \in targets
                       THEN DictSet(header[i].rules, c[1],
                                    RuleWritten(c[1], c[2]))
                       ELSE header[i].rules]_vars

\* C11's case: rule has returned on a group of two fields, one carrying
\* the type rule it wrote and the other left without it.
C11_Witness ==
    /\ header_ret.op = "rule"
    /\ header_ret.status = "ok"
    /\ Len(header) = 2
    /\ \E i, j \in 1..2 :
          /\ "type" \in DOMAIN header[i].rules
          /\ header[i].rules["type"] = "Foo"
          /\ "type" \notin DOMAIN header[j].rules

(***************************************************************************)
(* Properties of the type registry.                                        *)
(***************************************************************************)
\* C12: whatever type or rule('type', ...) call is made, every name the
\* registry holds keeps the type it was first registered with, and no name
\* leaves the registry.
C12_TypesWriteOnce ==
    [][\A n \in DOMAIN types_mapping :
          /\ n \in DOMAIN types_mapping'
          /\ types_mapping'[n] = types_mapping[n]]_vars

\* C12's case: a second class named Foo has been declared on a field
\* after the name Foo was registered for the first class.
C12_Witness ==
    /\ field_ret.op = "call"
    /\ field_ret.method = "type"
    /\ field_ret.value = "<class Foo#2>"
    /\ "Foo" \in DOMAIN types_mapping
    /\ types_mapping["Foo"] = "<class Foo>"

(***************************************************************************)
(* Properties of the table.                                                *)
(***************************************************************************)
\* A document that fails validation against the schema of the header the
\* table holds, under the table's configuration.
Fails(document) ==
    /\ document.kind = "dict"
    /\ DocErrors(hdrs[tbl.header], tbl.allow_unknown, types_mapping,
                 document.map) # {}

AllMappings(documents) ==
    \A i \in 1..Len(documents) : documents[i].kind = "dict"

\* C1: when the document of insert, or a document of the batch of
\* insert_multiple at any position, fails validation, the call fails with
\* the validation Exception and the stored documents are what they were.
C1_InsertAllOrNothing ==
    [][table_ret'.op \in {"insert", "insert_multiple"} =>
         /\ \A document \in DocInputs :
               (Insert(document) /\ Fails(document)) =>
                 (table_ret'.status = "Exception" /\ docs' = docs)
         /\ \A documents \in DocLists :
               (/\ InsertMultiple(documents)
                /\ AllMappings(documents)
                /\ \E i \in 1..Len(documents) : Fails(documents[i])) =>
                 (table_ret'.status = "Exception" /\ docs' = docs)]_vars

\* C1's case: insert_multiple has failed on the second document of a
\* batch whose first document is valid.
C1_Witness ==
    /\ table_ret.op = "insert_multiple"
    /\ table_ret.status = "Exception"
    /\ table_ret.at = 2

\* C3: an update function given to update, or as the first element of an
\* update of update_multiple, is not submitted to the rule engine: the call
\* does not fail because of it.
C3_UpdateFunctionPassThrough ==
    [][table_ret'.op \in {"update", "update_multiple"} =>
         /\ \A fields \in DocInputs, cond \in Conds :
               (fields.kind = "callable" /\ Update(fields, cond)) =>
                 table_ret'.status = "ok"
         /\ \A updates \in UpdateLists :
               (/\ UpdateMultiple(updates)
                /\ \A i \in 1..Len(updates) : ~Fails(updates[i].fields)) =>
                 table_ret'.status = "ok"]_vars

\* C5: validate_errors never raises, for a valid or an invalid document.
C5_ValidateErrorsNeverRaises ==
    table_ret.op = "validate_errors" => table_ret.status = "ok"

\* C9: after every call, the schema the table gives its validators and
\* its document model is the '_schema' of the header it holds, a header
\* given to the header setter is the one it holds, and the schema a call
\* validated against is that one.
C9_ActiveSchema ==
    [][/\ SetValidatorRules(tbl', hdrs').schema = hdrs'[tbl'.header]
       /\ \A other \in Headers :
             HeaderSetter(other) =>
               SetValidatorRules(tbl', hdrs').schema = hdrs'[other]
       /\ table_ret'.op \in {"validate", "model"} =>
             table_ret'.used = hdrs'[tbl'.header]]_vars

\* C9's case: the table has validated a document after its header was
\* replaced by one with fields, when the dict it was constructed with no
\* longer is any header's schema.
C9_Witness ==
    /\ table_ret.op = "validate"
    /\ tbl.header = "h2"
    /\ hdrs["h2"] # <<>>
    /\ ~tbl.schema_alias
    /\ SchemaAttr(tbl, hdrs) # hdrs["h2"]

\* C13: the header setter given a value that is no HeaderSheet fails with
\* TypeError and leaves the header the table holds and the registry as
\* they were; given a HeaderSheet it makes it the table's header, and then
\* the registry maps every field f of that header to {f: rule-set of f}
\* and still holds every entry it held under any other name.
C13_HeaderSetter ==
    [][table_ret'.op = "header" =>
         \A other \in Headers \cup {"<dict>"} :
           HeaderSetter(other) =>
             IF other \notin Headers
             THEN /\ table_ret'.status = "TypeError"
                  /\ tbl'.header = tbl.header
                  /\ hdrs' = hdrs
                  /\ registry' = registry
             ELSE /\ table_ret'.status = "ok"
                  /\ tbl'.header = other
                  /\ \A i \in 1..Len(hdrs[other]) :
                        /\ hdrs[other][i].name \in DOMAIN registry'
                        /\ registry'[hdrs[other][i].name] =
                              <<[name |-> hdrs[other][i].name,
                                 rules |-> hdrs[other][i].rules]>>
                  /\ \A n \in DOMAIN registry :
                        ~HasKey(hdrs[other], n) =>
                          /\ n \in DOMAIN registry'
                          /\ registry'[n] = registry[n]]_vars

\* C13's case: the setter has replaced the header by one that holds a
\* field, now registered, while the registry keeps the entry of a field
\* of the earlier header that the new one does not hold.
C13_Witness ==
    /\ table_ret.op = "header"
    /\ table_ret.status = "ok"
    /\ tbl.header = "h2"
    /\ hdrs["h2"] # <<>>
    /\ \A i \in 1..Len(hdrs["h2"]) :
          hdrs["h2"][i].name \in DOMAIN registry
    /\ \E n \in DOMAIN registry : ~HasKey(hdrs["h2"], n)

====
